---- MODULE Spec2Model ----
(***************************************************************************)
(* Boop: the debounced file-stabilization and move engine of src/app.py.   *)
(*                                                                         *)
(* Three threads of the program share the handler's pending dict and the   *)
(* watch folder: the watchdog observer thread (on_created / on_modified),  *)
(* the daemon thread of Boop.start (process_loop -> process_pending ->     *)
(* move_file) and the UI thread (reorganize_all).  The source takes no     *)
(* lock, so every access to pending or to the file system is one step and  *)
(* steps of different threads interleave.                                  *)
(*                                                                         *)
(* Spec is that engine after one start().  SpecBuild is                    *)
(* build_extension_map on any category table; SpecLife is the life cycle   *)
(* of a Boop object, its calls of start() and stop().  SpecStep runs       *)
(* move_file and then the loop body of reorganize_all on one file, each    *)
(* alone and from the same watch folder.                                   *)
(*                                                                         *)
(* A file name is a sequence of one-character strings, a path is a         *)
(* sequence of names relative to the watch folder: <<name>> lies directly  *)
(* in the watch folder, <<folder, name>> in a subfolder.                   *)
(***************************************************************************)
EXTENDS Integers, Sequences, FiniteSets, TLC

VARIABLES files, dirs, steps, clock, pending, watcher, timer, reorg,
          calls, tracked,
          table, index,
          running, observers, pendings, loops, stopped,
          trial

\* the engine: the watch folder, one handler with its observer thread, one
\* tick loop, reorganize_all
engine == <<files, dirs, steps, clock, pending, watcher, timer, reorg,
            calls, tracked>>

\* build_extension_map: the category table it is given, the index it returns
build == <<table, index>>

\* the life cycle of a Boop object: start() and stop()
life == <<running, observers, pendings, loops, stopped>>

vars == <<engine, build, life, trial>>

(***************************************************************************)
(* Bound of the model: the environment takes at most MaxSteps steps, each  *)
(* a download, a tick of the clock or a call of reorganize_all.            *)
(***************************************************************************)
MaxSteps == 5

(***************************************************************************)
(* Configuration (config.yaml as loaded by load_config).                   *)
(***************************************************************************)
Debounce == 2

Other == <<"O", "t", "h", "e", "r">>
Images == <<"I", "m", "a", "g", "e", "s">>
DotJpg == <<".", "j", "p", "g">>

Categories == << [category |-> Images, extensions |-> <<DotJpg>>] >>

(***************************************************************************)
(* The names the environment uses for downloads.                           *)
(***************************************************************************)
PJpg == <<"p", ".", "J", "P", "G">>
DotH == <<".", "h">>

DownloadNames == {PJpg, Images}

(***************************************************************************)
(* str.lower, str.startswith("."), str(int), PurePath.suffix and           *)
(* PurePath.stem on names.                                                 *)
(***************************************************************************)
UpperChars == <<"A", "B", "C", "D", "E", "F", "G", "H", "I", "J", "K", "L", "M",
                "N", "O", "P", "Q", "R", "S", "T", "U", "V", "W", "X", "Y", "Z">>
LowerChars == <<"a", "b", "c", "d", "e", "f", "g", "h", "i", "j", "k", "l", "m",
                "n", "o", "p", "q", "r", "s", "t", "u", "v", "w", "x", "y", "z">>

LowerChar(c) ==
    IF \E k \in 1..Len(UpperChars) : UpperChars[k] = c
    THEN LowerChars[CHOOSE k \in 1..Len(UpperChars) : UpperChars[k] = c]
    ELSE c

Lower(s) == [k \in 1..Len(s) |-> LowerChar(s[k])]

StartsWithDot(name) == Len(name) >= 1 /\ name[1] = "."

DigitChars == <<"0", "1", "2", "3", "4", "5", "6", "7", "8", "9">>

RECURSIVE Str(_)
Str(n) == IF n < 10 THEN <<DigitChars[n + 1]>>
          ELSE Str(n \div 10) \o <<DigitChars[(n % 10) + 1]>>

\* name.rfind('.') as a 1-based index, 0 when there is no dot
RFindDot(name) ==
    IF \E k \in 1..Len(name) : name[k] = "."
    THEN CHOOSE k \in 1..Len(name) :
            name[k] = "." /\ \A m \in (k + 1)..Len(name) : name[m] # "."
    ELSE 0

\* pathlib: i = name.rfind('.'); 0 < i < len(name) - 1 (0-based)
HasSuffix(name) == RFindDot(name) > 1 /\ RFindDot(name) < Len(name)

Suffix(name) == IF HasSuffix(name)
                THEN SubSeq(name, RFindDot(name), Len(name))
                ELSE <<>>

Stem(name) == IF HasSuffix(name)
              THEN SubSeq(name, 1, RFindDot(name) - 1)
              ELSE name

(***************************************************************************)
(* build_extension_map: the later of two entries for one extension wins.   *)
(***************************************************************************)
RECURSIVE PutExtensions(_, _, _)
PutExtensions(ext_map, category, extensions) ==
    IF extensions = <<>> THEN ext_map
    ELSE PutExtensions(
            [e \in DOMAIN ext_map \cup {Lower(Head(extensions))} |->
                IF e = Lower(Head(extensions)) THEN category ELSE ext_map[e]],
            category, Tail(extensions))

RECURSIVE BuildFrom(_, _)
BuildFrom(ext_map, categories) ==
    IF categories = <<>> THEN ext_map
    ELSE BuildFrom(PutExtensions(ext_map, Head(categories).category,
                                 Head(categories).extensions),
                   Tail(categories))

\* as build_extension_map, going through the table from its end: the first
\* category that lists an extension wins
build_extension_map_reversed(categories) ==
    BuildFrom(<<>>, [k \in 1..Len(categories) |->
                        categories[Len(categories) + 1 - k]])

build_extension_map(categories) == BuildFrom(<<>>, categories)

\* as CategoryOf, with the default folder spelled in lower case
CategoryOfLowerDefault(ext_map, ext) ==
    IF ext \in DOMAIN ext_map THEN ext_map[ext] ELSE Lower(Other)

\* ext_map.get(ext, "Other")
CategoryOf(ext_map, ext) ==
    IF ext \in DOMAIN ext_map THEN ext_map[ext] ELSE Other

ExtMap == build_extension_map(Categories)

(***************************************************************************)
(* The file system: os.path.exists, Path.mkdir(exist_ok=True), shutil.move *)
(***************************************************************************)
Last(path) == path[Len(path)]

Parent(path) == SubSeq(path, 1, Len(path) - 1)

Ancestors(path) == {SubSeq(path, 1, k) : k \in 1..(Len(path) - 1)}

IsPrefix(a, b) == Len(a) <= Len(b) /\ SubSeq(b, 1, Len(a)) = a

\* the path q below src, seen below dst
Rebase(q, src, dst) == dst \o SubSeq(q, Len(src) + 1, Len(q))

Exists(path) == path \in DOMAIN files \/ path \in dirs

\* Path.mkdir(exist_ok=True) raises FileExistsError iff the path is a file
MkdirFails(folder) == folder \in DOMAIN files

\* shutil.move: "if os.path.isdir(dst): real_dst = os.path.join(dst, basename)"
RealDst(src, dst) == IF dst \in dirs THEN dst \o <<Last(src)>> ELSE dst

\* shutil.move raises: no source; the destination is a directory that holds
\* an entry of the source's name; a directory moved into itself or onto a
\* file; a file moved into a directory that does not exist
MoveRaises(src, dst) ==
    \/ ~Exists(src)
    \/ dst \in dirs /\ Exists(RealDst(src, dst))
    \/ src \in dirs /\ IsPrefix(src, RealDst(src, dst))
    \/ src \in dirs /\ dst \in DOMAIN files
    \/ /\ src \in DOMAIN files
       /\ Len(RealDst(src, dst)) > 1
       /\ Parent(RealDst(src, dst)) \notin dirs

\* os.rename inside shutil.move: a file replaces a regular file at the
\* destination, a directory goes with all it holds
MovedFiles(src, dst) ==
    LET real == RealDst(src, dst)
        kept == {q \in DOMAIN files : ~IsPrefix(src, q) /\ q # real}
        moved == {q \in DOMAIN files : IsPrefix(src, q)}
    IN  [q \in kept \cup {Rebase(m, src, real) : m \in moved} |->
            IF q \in kept THEN files[q]
            ELSE files[CHOOSE m \in moved : Rebase(m, src, real) = q]]

MovedDirs(src, dst) ==
    LET real == RealDst(src, dst)
    IN  {IF IsPrefix(src, d) THEN Rebase(d, src, real) ELSE d : d \in dirs}
            \cup (IF src \in dirs THEN Ancestors(real) ELSE {})

(***************************************************************************)
(* The pending dict {path: time of last activity}, in insertion order.     *)
(***************************************************************************)
Keys(d) == {d[k].path : k \in 1..Len(d)}

\* d[path]
At(d, path) == d[CHOOSE k \in 1..Len(d) : d[k].path = path].t

\* d[path] = ts
Store(d, path, ts) ==
    IF path \in Keys(d)
    THEN [k \in 1..Len(d) |-> IF d[k].path = path THEN [path |-> path, t |-> ts]
                                                  ELSE d[k]]
    ELSE Append(d, [path |-> path, t |-> ts])

\* for path in paths: d.pop(path, None)
Pop(d, paths) ==
    LET Stays(e) == e.path \notin paths IN SelectSeq(d, Stays)

(***************************************************************************)
(* The callback registered with Boop(on_file_moved=...): calls is the list *)
(* of its invocations, each with the arguments it got.  Boop.last_file is  *)
(* the path of the latest one.                                             *)
(***************************************************************************)
\* self.on_file_moved(path, category) of Boop
on_file_moved(log, path, category) ==
    Append(log, [path |-> path, category |-> category])

\* as file_moved_callback, with the call of the registered callback left out
file_moved_callback_silent(log, path, category) == log

\* file_moved_callback of Boop.start: self.last_file = path, then the
\* registered callback
file_moved_callback(log, path, category) == on_file_moved(log, path, category)

\* Boop.last_file, <<>> for None
last_file == IF calls = <<>> THEN <<>> ELSE calls[Len(calls)].path

(***************************************************************************)
(* History kept for the properties, no part of the program: tracked holds  *)
(* the paths that on_created has recorded and that have not since been     *)
(* moved or found missing by process_pending.  For each it tells whether   *)
(* the latest event of the pending path is that creation ("created"), or a *)
(* modification such that every gap between successive events since the    *)
(* creation was shorter than the debounce ("refreshed"), or a modification *)
(* after some longer gap ("interrupted").                                  *)
(***************************************************************************)
Observe(h, path, status) ==
    [q \in DOMAIN h \cup {path} |-> IF q = path THEN status ELSE h[q]]

Forget(h, path) == [q \in DOMAIN h \ {path} |-> h[q]]

(***************************************************************************)
(* History kept for the comparison of move_file with the loop body of      *)
(* reorganize_all, no part of the program: trial holds the file the two    *)
(* are run on, the watch folder they both start from, and what the first   *)
(* of them left behind.  It is NoTrial where no such comparison is made.   *)
(***************************************************************************)
NoOutcome == [raised |-> FALSE, category |-> <<>>, dest_folder |-> <<>>,
              dest_path |-> <<>>, files |-> <<>>, dirs |-> {}, calls |-> <<>>]

NoTrial == [phase |-> "none", path |-> <<>>, files |-> <<>>, dirs |-> {},
            outcome |-> NoOutcome]

(***************************************************************************)
(* Initial state: Boop.__init__ and DownloadHandler.__init__ over a watch  *)
(* folder that holds one hidden file, all three threads at rest.           *)
(***************************************************************************)
WatcherIdle == [pc |-> "idle", path |-> <<>>, t |-> 0]

TimerIdle == [pc |-> "loop", now |-> 0, items |-> <<>>, to_remove |-> {},
              path |-> <<>>, category |-> <<>>,
              dest_folder |-> <<>>, dest_path |-> <<>>, stem |-> <<>>,
              ext |-> <<>>, counter |-> 0]

ReorgIdle == [pc |-> "idle", todo |-> {}, path |-> <<>>, category |-> <<>>,
              dest_folder |-> <<>>, dest_path |-> <<>>, stem |-> <<>>,
              ext |-> <<>>, counter |-> 0, count |-> 0, eligible |-> {}]

\* the watch folder when the program starts holds one hidden file
InitFiles == [q \in {<<DotH>>} |-> DotH]

InitEngine ==
    /\ files = InitFiles
    /\ dirs = {}
    /\ steps = 0
    /\ clock = 0
    /\ pending = <<>>
    /\ watcher = WatcherIdle
    /\ timer = TimerIdle
    /\ reorg = ReorgIdle
    /\ calls = <<>>
    /\ tracked = <<>>

\* ext_map = build_extension_map(self.config["categories"])
Configured ==
    /\ table = Categories
    /\ index = [built |-> TRUE, map |-> ExtMap]

\* Boop.__init__: self.observer = None, self.handler = None,
\* self._running = False
NotStarted ==
    /\ running = FALSE
    /\ observers = <<>>
    /\ pendings = <<>>
    /\ loops = <<>>
    /\ stopped = FALSE

\* the Boop object after one call of start(): the handler (its pending is the
\* variable pending), the observer (the watcher) and the tick loop (the timer)
\* are those of that call
Started ==
    /\ running = TRUE
    /\ observers = <<"started">>
    /\ pendings = << <<>> >>
    /\ loops = << [pc |-> "while", handler |-> 0] >>
    /\ stopped = FALSE

Init == InitEngine /\ Configured /\ Started /\ trial = NoTrial

(***************************************************************************)
(* Environment: downloads and the clock.  A file keeps, as its content,     *)
(* the name it was downloaded under.                                       *)
(***************************************************************************)
\* a new file appears directly in the watch folder
Download(name) ==
    /\ steps < MaxSteps
    /\ steps' = steps + 1
    /\ ~Exists(<<name>>)
    /\ files' = [q \in DOMAIN files \cup {<<name>>} |->
                    IF q = <<name>> THEN name ELSE files[q]]
    /\ UNCHANGED <<dirs, clock, pending, watcher, timer, reorg, calls, tracked>>
    /\ UNCHANGED <<build, life, trial>>

Tick ==
    /\ steps < MaxSteps
    /\ steps' = steps + 1
    /\ clock' = clock + 1
    /\ UNCHANGED <<files, dirs, pending, watcher, timer, reorg, calls, tracked>>
    /\ UNCHANGED <<build, life, trial>>

(***************************************************************************)
(* Observer thread: DownloadHandler.on_created and on_modified.  The       *)
(* handlers are written for events about any entry of the watch folder or  *)
(* of its subfolders, and get them here.                                   *)
(***************************************************************************)
EventPaths == DOMAIN files \cup dirs

Event(path) == [src_path |-> path, is_directory |-> path \in dirs]

on_created(src_path) ==
    /\ watcher.pc = "idle"
    /\ LET event == Event(src_path)
           path == event.src_path
       IN  IF event.is_directory
           THEN UNCHANGED <<pending, tracked>>
           ELSE IF Len(path) # 1
           THEN UNCHANGED <<pending, tracked>>
           ELSE IF StartsWithDot(Last(path))
           THEN UNCHANGED <<pending, tracked>>
           ELSE /\ pending' = Store(pending, path, clock)
                /\ tracked' = Observe(tracked, path, "created")
    /\ UNCHANGED <<files, dirs, steps, clock, watcher, timer, reorg, calls>>
    /\ UNCHANGED <<build, life, trial>>

\* on_modified up to the call of time.time()
on_modified(src_path) ==
    /\ watcher.pc = "idle"
    /\ LET event == Event(src_path)
           path == event.src_path
       IN  IF event.is_directory
           THEN watcher' = watcher
           ELSE IF path \in Keys(pending)
           THEN watcher' = [pc |-> "m_store", path |-> path, t |-> clock]
           ELSE watcher' = watcher
    /\ tracked' =
          IF /\ ~Event(src_path).is_directory
             /\ src_path \in Keys(pending) \cap DOMAIN tracked
          THEN Observe(tracked, src_path,
                       IF /\ tracked[src_path] # "interrupted"
                          /\ clock - At(pending, src_path) < Debounce
                       THEN "refreshed" ELSE "interrupted")
          ELSE tracked
    /\ UNCHANGED <<files, dirs, steps, clock, pending, timer, reorg, calls>>
    /\ UNCHANGED <<build, life, trial>>

\* on_modified: self.pending[path] = <the time read>
on_modified_store ==
    /\ watcher.pc = "m_store"
    /\ pending' = Store(pending, watcher.path, watcher.t)
    /\ watcher' = WatcherIdle
    /\ UNCHANGED <<files, dirs, steps, clock, timer, reorg, calls, tracked>>
    /\ UNCHANGED <<build, life, trial>>

(***************************************************************************)
(* Timer thread: process_loop, process_pending and move_file.              *)
(***************************************************************************)
\* as Stable, with the test of the debounce left out
StableAll(d, now) == [k \in 1..Len(d) |-> d[k].path]

\* the paths of list(self.pending.items()) that
\* "if now - last_modified < self.debounce: continue" does not skip
Stable(d, now) ==
    LET Ready(e) == ~(now - e.t < Debounce)
        ready == SelectSeq(d, Ready)
    IN  [k \in 1..Len(ready) |-> ready[k].path]

\* the end of process_pending: back in process_loop
TimerReturn == [TimerIdle EXCEPT !.pc = "loop"]

\* the for loop of process_pending from its next unskipped entry on, up to its
\* access to the file system; after the last entry, the clean-up loop
TimerContinue(t) ==
    [t EXCEPT !.pc = "exists", !.path = Head(t.items), !.items = Tail(t.items),
              !.to_remove = t.to_remove \cup {Head(t.items)}]

TimerAfterLoop(t) ==
    IF t.to_remove = {} THEN TimerReturn ELSE [t EXCEPT !.pc = "cleanup"]

TimerStep(t) ==
    IF t.items = <<>> THEN TimerAfterLoop(t) ELSE TimerContinue(t)

TimerDead == [TimerIdle EXCEPT !.pc = "dead"]

\* process_loop calls process_pending: now = time.time() and
\* list(self.pending.items())
process_pending ==
    /\ timer.pc = "loop"
    /\ timer' = TimerStep([timer EXCEPT !.now = clock,
                                       !.items = Stable(pending, clock)])
    /\ UNCHANGED <<files, dirs, steps, clock, pending, watcher, reorg, calls, tracked>>
    /\ UNCHANGED <<build, life, trial>>

\* if not path.exists(): continue; otherwise move_file up to mkdir
ProcessPendingExists ==
    /\ timer.pc = "exists"
    /\ IF ~Exists(timer.path)
       THEN /\ timer' = TimerStep(timer)
            /\ tracked' = Forget(tracked, timer.path)
       ELSE /\ timer' =
                [timer EXCEPT
                   !.pc = "mkdir",
                   !.ext = Lower(Suffix(Last(timer.path))),
                   !.category =
                       CategoryOf(ExtMap, Lower(Suffix(Last(timer.path)))),
                   !.dest_folder =
                       <<CategoryOf(ExtMap, Lower(Suffix(Last(timer.path))))>>]
            /\ tracked' = tracked
    /\ UNCHANGED <<files, dirs, steps, clock, pending, watcher, reorg, calls>>
    /\ UNCHANGED <<build, life, trial>>

\* dest_folder.mkdir(exist_ok=True); dest_path = dest_folder / path.name
MoveFileMkdir ==
    /\ timer.pc = "mkdir"
    /\ IF MkdirFails(timer.dest_folder)
       THEN /\ timer' = TimerDead
            /\ dirs' = dirs
       ELSE /\ dirs' = dirs \cup {timer.dest_folder}
            /\ timer' = [timer EXCEPT
                           !.pc = "probe0",
                           !.dest_path =
                               timer.dest_folder \o <<Last(timer.path)>>]
    /\ UNCHANGED <<files, steps, clock, pending, watcher, reorg, calls, tracked>>
    /\ UNCHANGED <<build, life, trial>>

\* if dest_path.exists(): stem = path.stem; counter = 1
MoveFileProbeFirst ==
    /\ timer.pc = "probe0"
    /\ IF Exists(timer.dest_path)
       THEN timer' = [timer EXCEPT !.pc = "probe",
                                   !.stem = Stem(Last(timer.path)),
                                   !.counter = 1]
       ELSE timer' = [timer EXCEPT !.pc = "move"]
    /\ UNCHANGED <<files, dirs, steps, clock, pending, watcher, reorg, calls, tracked>>
    /\ UNCHANGED <<build, life, trial>>

\* while dest_path.exists(): dest_path = dest_folder / f"{stem}_{counter}{ext}"
MoveFileProbe ==
    /\ timer.pc = "probe"
    /\ IF Exists(timer.dest_path)
       THEN timer' = [timer EXCEPT
                        !.dest_path = timer.dest_folder \o
                            <<timer.stem \o <<"_">> \o Str(timer.counter) \o timer.ext>>,
                        !.counter = timer.counter + 1]
       ELSE timer' = [timer EXCEPT !.pc = "move"]
    /\ UNCHANGED <<files, dirs, steps, clock, pending, watcher, reorg, calls, tracked>>
    /\ UNCHANGED <<build, life, trial>>

\* shutil.move(str(path), str(dest_path))
MoveFileMove ==
    /\ timer.pc = "move"
    /\ IF MoveRaises(timer.path, timer.dest_path)
       THEN /\ timer' = TimerDead
            /\ UNCHANGED <<files, dirs, tracked>>
       ELSE /\ files' = MovedFiles(timer.path, timer.dest_path)
            /\ dirs' = MovedDirs(timer.path, timer.dest_path)
            /\ tracked' = Forget(tracked, timer.path)
            /\ timer' = [timer EXCEPT !.pc = "notify"]
    /\ UNCHANGED <<steps, clock, pending, watcher, reorg, calls>>
    /\ UNCHANGED <<build, life, trial>>

\* if self.on_file_moved: self.on_file_moved(dest_path, category), which is
\* file_moved_callback of Boop.start
MoveFileNotify ==
    /\ timer.pc = "notify"
    /\ calls' = file_moved_callback(calls, timer.dest_path, timer.category)
    /\ timer' = TimerStep(timer)
    /\ UNCHANGED <<files, dirs, steps, clock, pending, watcher, reorg, tracked>>
    /\ UNCHANGED <<build, life, trial>>

\* for path in to_remove: self.pending.pop(path, None)
ProcessPendingCleanup ==
    /\ timer.pc = "cleanup"
    /\ pending' = Pop(pending, timer.to_remove)
    /\ timer' = TimerReturn
    /\ UNCHANGED <<files, dirs, steps, clock, watcher, reorg, calls, tracked>>
    /\ UNCHANGED <<build, life, trial>>

(***************************************************************************)
(* UI thread: Boop.reorganize_all.                                         *)
(***************************************************************************)
\* the names of the entries directly inside the watch folder
RootNames == {p[1] : p \in {q \in DOMAIN files \cup dirs : Len(q) = 1}}

\* as SkippedByName, with the test of the leading dot left out
SkippedByNameNever(name) == FALSE

\* path.name.startswith(".")
SkippedByName(name) == StartsWithDot(name)

\* the entries that "path.is_dir() or path.name.startswith(".")" skips
Skipped(name) == <<name>> \in dirs \/ SkippedByName(name)

\* ext_map = build_extension_map(...); count = 0; self.watch_folder.iterdir()
\* lists the names of the folder, in an order the file system chooses.  A name
\* with a leading dot is skipped whenever the loop reaches it, so the loop is
\* left with the other names; whether one of them is a directory is looked at
\* when the loop reaches it.
ReorganizeAllBegin ==
    /\ reorg.pc = "idle"
    /\ steps < MaxSteps
    /\ steps' = steps + 1
    /\ reorg' = [ReorgIdle EXCEPT
                   !.pc = "next",
                   !.todo = {name \in RootNames : ~SkippedByName(name)},
                   !.eligible = {name \in RootNames : ~Skipped(name)}]
    /\ UNCHANGED <<files, dirs, clock, pending, watcher, timer, calls, tracked>>
    /\ UNCHANGED <<build, life, trial>>

\* return count
ReorganizeAllReturn ==
    /\ reorg.pc = "next"
    /\ reorg.todo = {}
    /\ reorg' = ReorgIdle
    /\ UNCHANGED <<files, dirs, steps, clock, pending, watcher, timer, calls, tracked>>
    /\ UNCHANGED <<build, life, trial>>

\* for path in ...: if path.is_dir() or path.name.startswith("."): continue
\* otherwise the loop body up to mkdir
ReorganizeAllNext(name) ==
    /\ reorg.pc = "next"
    /\ name \in reorg.todo
    /\ IF Skipped(name)
       THEN reorg' = [reorg EXCEPT !.todo = reorg.todo \ {name}]
       ELSE reorg' = [reorg EXCEPT
                        !.todo = reorg.todo \ {name},
                        !.pc = "mkdir",
                        !.path = <<name>>,
                        !.ext = Lower(Suffix(name)),
                        !.category = CategoryOf(build_extension_map(Categories),
                                                Lower(Suffix(name))),
                        !.dest_folder = <<CategoryOf(build_extension_map(Categories),
                                                     Lower(Suffix(name)))>>]
    /\ UNCHANGED <<files, dirs, steps, clock, pending, watcher, timer, calls, tracked>>
    /\ UNCHANGED <<build, life, trial>>

\* an exception leaves reorganize_all
ReorgRaised == ReorgIdle

\* dest_folder.mkdir(exist_ok=True); dest_path = dest_folder / path.name
ReorganizeAllMkdir ==
    /\ reorg.pc = "mkdir"
    /\ IF MkdirFails(reorg.dest_folder)
       THEN /\ reorg' = ReorgRaised
            /\ dirs' = dirs
       ELSE /\ dirs' = dirs \cup {reorg.dest_folder}
            /\ reorg' = [reorg EXCEPT
                           !.pc = "probe0",
                           !.dest_path =
                               reorg.dest_folder \o <<Last(reorg.path)>>]
    /\ UNCHANGED <<files, steps, clock, pending, watcher, timer, calls, tracked>>
    /\ UNCHANGED <<build, life, trial>>

\* if dest_path.exists(): stem = path.stem; counter = 1
ReorganizeAllProbeFirst ==
    /\ reorg.pc = "probe0"
    /\ IF Exists(reorg.dest_path)
       THEN reorg' = [reorg EXCEPT !.pc = "probe",
                                   !.stem = Stem(Last(reorg.path)),
                                   !.counter = 1]
       ELSE reorg' = [reorg EXCEPT !.pc = "move"]
    /\ UNCHANGED <<files, dirs, steps, clock, pending, watcher, timer, calls, tracked>>
    /\ UNCHANGED <<build, life, trial>>

\* while dest_path.exists(): dest_path = dest_folder / f"{stem}_{counter}{ext}"
ReorganizeAllProbe ==
    /\ reorg.pc = "probe"
    /\ IF Exists(reorg.dest_path)
       THEN reorg' = [reorg EXCEPT
                        !.dest_path = reorg.dest_folder \o
                            <<reorg.stem \o <<"_">> \o Str(reorg.counter) \o reorg.ext>>,
                        !.counter = reorg.counter + 1]
       ELSE reorg' = [reorg EXCEPT !.pc = "move"]
    /\ UNCHANGED <<files, dirs, steps, clock, pending, watcher, timer, calls, tracked>>
    /\ UNCHANGED <<build, life, trial>>

\* shutil.move(str(path), str(dest_path)); count += 1
ReorganizeAllMove ==
    /\ reorg.pc = "move"
    /\ IF MoveRaises(reorg.path, reorg.dest_path)
       THEN /\ reorg' = ReorgRaised
            /\ UNCHANGED <<files, dirs, tracked>>
       ELSE /\ files' = MovedFiles(reorg.path, reorg.dest_path)
            /\ dirs' = MovedDirs(reorg.path, reorg.dest_path)
            /\ tracked' = Forget(tracked, reorg.path)
            /\ reorg' = [reorg EXCEPT !.pc = "notify", !.count = reorg.count + 1]
    /\ UNCHANGED <<steps, clock, pending, watcher, timer, calls>>
    /\ UNCHANGED <<build, life, trial>>

\* self.last_file = dest_path
\* if self.on_file_moved: self.on_file_moved(dest_path, category)
ReorganizeAllNotify ==
    /\ reorg.pc = "notify"
    /\ calls' = on_file_moved(calls, reorg.dest_path, reorg.category)
    /\ reorg' = [reorg EXCEPT !.pc = "next"]
    /\ UNCHANGED <<files, dirs, steps, clock, pending, watcher, timer, tracked>>
    /\ UNCHANGED <<build, life, trial>>

(***************************************************************************)
(* The program: any interleaving of the environment and the three threads. *)
(***************************************************************************)
Next ==
    \/ \E name \in DownloadNames : Download(name)
    \/ Tick
    \/ \E path \in EventPaths : on_created(path)
    \/ \E path \in EventPaths : on_modified(path)
    \/ on_modified_store
    \/ process_pending
    \/ ProcessPendingExists
    \/ MoveFileMkdir
    \/ MoveFileProbeFirst
    \/ MoveFileProbe
    \/ MoveFileMove
    \/ MoveFileNotify
    \/ ProcessPendingCleanup
    \/ ReorganizeAllBegin
    \/ ReorganizeAllReturn
    \/ \E name \in reorg.todo : ReorganizeAllNext(name)
    \/ ReorganizeAllMkdir
    \/ ReorganizeAllProbeFirst
    \/ ReorganizeAllProbe
    \/ ReorganizeAllMove
    \/ ReorganizeAllNotify

Spec == Init /\ [][Next]_vars

(***************************************************************************)
(* build_extension_map on its own: any category table within the bounds,   *)
(* a dict of category names to lists of extensions, in its iteration       *)
(* order.                                                                  *)
(***************************************************************************)
MaxCategories == 2
MaxExtensions == 2

Docs == <<"D", "o", "c", "s">>
DotJPG == <<".", "J", "P", "G">>
DotPdf == <<".", "p", "d", "f">>

CategoryNames == {Images, Docs, Other}
ExtensionNames == {DotJPG, DotPdf}

SeqsUpTo(S, n) == UNION {[1..k -> S] : k \in 0..n}

Range(f) == {f[k] : k \in DOMAIN f}

\* the keys of a dict are distinct: the category names of a table, in order
CategorySeqs ==
    {c \in SeqsUpTo(CategoryNames, MaxCategories) :
        \A j, k \in 1..Len(c) : j # k => c[j] # c[k]}

Tables ==
    UNION {{[k \in 1..Len(c) |-> [category |-> c[k], extensions |-> e[k]]] :
               e \in [1..Len(c) -> SeqsUpTo(ExtensionNames, MaxExtensions)]} :
           c \in CategorySeqs}

Unbuilt == [built |-> FALSE, map |-> <<>>]

InitBuild ==
    /\ InitEngine
    /\ NotStarted
    /\ table \in Tables
    /\ index = Unbuilt
    /\ trial = NoTrial

\* a call build_extension_map(table)
Build ==
    /\ index' = [built |-> TRUE, map |-> build_extension_map(table)]
    /\ UNCHANGED <<table, engine, life, trial>>

NextBuild == Build

SpecBuild == InitBuild /\ [][NextBuild]_vars

(***************************************************************************)
(* The life cycle of a Boop object: start() and stop() on the UI thread,   *)
(* the observer threads and the process_loop threads that start() creates. *)
(* The k-th call of start() creates the k-th handler (with pendings[k]),   *)
(* the k-th observer, which delivers to that handler, and the k-th loop;   *)
(* self.handler and self.observer are the latest.  The clock stands still  *)
(* here, so no entry stabilizes and process_pending moves nothing.         *)
(***************************************************************************)
MaxStarts == 2

InitLife ==
    /\ InitEngine
    /\ NotStarted
    /\ table = Categories
    /\ index = Unbuilt
    /\ trial = NoTrial

\* Boop.start
start ==
    /\ Len(observers) < MaxStarts
    /\ index' = [built |-> TRUE, map |-> build_extension_map(table)]
    /\ pendings' = Append(pendings, <<>>)
    /\ observers' = Append(observers, "started")
    /\ running' = TRUE
    /\ loops' = Append(loops, [pc |-> "while", handler |-> 0])
    /\ stopped' = FALSE
    /\ UNCHANGED <<table, engine, trial>>

\* Boop.stop: self._running = False; self.observer.stop(); join()
stop ==
    /\ running' = FALSE
    /\ observers' =
          IF observers = <<>> THEN observers
          ELSE [observers EXCEPT ![Len(observers)] = "stopped"]
    /\ stopped' = TRUE
    /\ UNCHANGED <<pendings, loops, build, engine, trial>>

\* an observer that has not been stopped delivers the creation of p.JPG in
\* the watch folder: on_created of its handler
Deliver(k) ==
    /\ observers[k] = "started"
    /\ pendings' = [pendings EXCEPT ![k] = Store(pendings[k], <<PJpg>>, clock)]
    /\ UNCHANGED <<running, observers, loops, stopped, build, engine, trial>>

\* process_loop: while self._running (after time.sleep(1), but for the first
\* time)
LoopTest(k) ==
    /\ loops[k].pc = "while"
    /\ loops' = [loops EXCEPT ![k].pc = IF running THEN "body" ELSE "done"]
    /\ UNCHANGED <<running, observers, pendings, stopped, build, engine, trial>>

\* process_loop: if self.handler: self.handler.process_pending() begins
LoopCall(k) ==
    /\ loops[k].pc = "body"
    /\ loops' = [loops EXCEPT ![k] = [pc |-> "pending", handler |-> Len(pendings)]]
    /\ UNCHANGED <<running, observers, pendings, stopped, build, engine, trial>>

\* process_pending finds no entry stabilized and returns
LoopReturn(k) ==
    /\ loops[k].pc = "pending"
    /\ Stable(pendings[loops[k].handler], clock) = <<>>
    /\ loops' = [loops EXCEPT ![k] = [pc |-> "while", handler |-> 0]]
    /\ UNCHANGED <<running, observers, pendings, stopped, build, engine, trial>>

NextLife ==
    \/ start
    \/ stop
    \/ \E k \in 1..Len(observers) : Deliver(k)
    \/ \E k \in 1..Len(loops) : LoopTest(k)
    \/ \E k \in 1..Len(loops) : LoopCall(k)
    \/ \E k \in 1..Len(loops) : LoopReturn(k)

SpecLife == InitLife /\ [][NextLife]_vars

(***************************************************************************)
(* move_file and the loop body of reorganize_all, each run alone on the    *)
(* same file of the same watch folder.  The watch folder is any one that   *)
(* holds some of the files p.JPG, Images and Other, the category folders   *)
(* Images and Other or some of them, and in these any of the names that    *)
(* the two probe for.  First process_pending calls move_file on the file,  *)
(* which stabilized; then the watch folder is put back as it was and       *)
(* reorganize_all reaches the file.                                        *)
(***************************************************************************)
\* how many of the numbered names of a file a category folder may hold
MaxTaken == 2

StepNames == {PJpg, Images, Other}

\* f"{stem}_{counter}{ext}" of a name, ext being path.suffix.lower()
Probed(name, counter) ==
    Stem(name) \o <<"_">> \o Str(counter) \o Lower(Suffix(name))

\* self.watch_folder / category of a name
FolderOf(name) == <<CategoryOf(ExtMap, Lower(Suffix(name)))>>

StepFiles ==
    {<<name>> : name \in StepNames}
        \cup {FolderOf(name) \o <<name>> : name \in StepNames}
        \cup {FolderOf(name) \o <<Probed(name, k)>> :
                 name \in StepNames, k \in 1..MaxTaken}

StepDirs == {FolderOf(name) : name \in StepNames}
                \cup {FolderOf(PJpg) \o <<PJpg>>}

\* no path is both a file and a directory, and every entry lies in a directory
WellFormed(fs) ==
    /\ DOMAIN fs.files \cap fs.dirs = {}
    /\ \A q \in DOMAIN fs.files \cup fs.dirs : Len(q) > 1 => Parent(q) \in fs.dirs

StepFolders ==
    {fs \in {[files |-> [q \in F |-> Last(q)], dirs |-> D] :
                F \in SUBSET StepFiles, D \in SUBSET StepDirs} : WellFormed(fs)}

\* what a thread that ran the seven steps has chosen and left behind
Outcome(thread, raised) ==
    [raised |-> raised, category |-> thread.category,
     dest_folder |-> thread.dest_folder, dest_path |-> thread.dest_path,
     files |-> files, dirs |-> dirs, calls |-> calls]

\* the file was created at time 0 and the debounce has passed
InitStep ==
    /\ \E fs \in StepFolders :
         \E name \in {n \in StepNames : <<n>> \in DOMAIN fs.files} :
            /\ files = fs.files
            /\ dirs = fs.dirs
            /\ pending = << [path |-> <<name>>, t |-> 0] >>
            /\ trial = [phase |-> "move_file", path |-> <<name>>,
                        files |-> fs.files, dirs |-> fs.dirs,
                        outcome |-> NoOutcome]
    /\ steps = 0
    /\ clock = Debounce
    /\ watcher = WatcherIdle
    /\ timer = TimerIdle
    /\ reorg = ReorgIdle
    /\ calls = <<>>
    /\ tracked = <<>>
    /\ Configured
    /\ Started

\* move_file has returned to process_pending or raised: what it left is kept,
\* the watch folder and the callback's log are put back
Rewind ==
    /\ trial.phase = "move_file"
    /\ timer.pc \in {"cleanup", "dead"}
    /\ trial' = [trial EXCEPT !.phase = "reorganize_all",
                              !.outcome = Outcome(timer, timer.pc = "dead")]
    /\ files' = trial.files
    /\ dirs' = trial.dirs
    /\ calls' = <<>>
    /\ UNCHANGED <<steps, clock, pending, watcher, timer, reorg, tracked>>
    /\ UNCHANGED <<build, life>>

\* the loop body of reorganize_all has ended for the file, or raised
StepDone ==
    /\ trial.phase = "reorganize_all"
    /\ steps = 1
    /\ \/ reorg.pc = "idle"
       \/ reorg.pc = "next" /\ Last(trial.path) \notin reorg.todo

NextStep ==
    \/ trial.phase = "move_file" /\ process_pending
    \/ trial.phase = "move_file" /\ ProcessPendingExists
    \/ trial.phase = "move_file" /\ MoveFileMkdir
    \/ trial.phase = "move_file" /\ MoveFileProbeFirst
    \/ trial.phase = "move_file" /\ MoveFileProbe
    \/ trial.phase = "move_file" /\ MoveFileMove
    \/ trial.phase = "move_file" /\ MoveFileNotify
    \/ Rewind
    \/ trial.phase = "reorganize_all" /\ steps = 0 /\ ReorganizeAllBegin
    \/ trial.phase = "reorganize_all" /\ ReorganizeAllNext(Last(trial.path))
    \/ trial.phase = "reorganize_all" /\ ReorganizeAllMkdir
    \/ trial.phase = "reorganize_all" /\ ReorganizeAllProbeFirst
    \/ trial.phase = "reorganize_all" /\ ReorganizeAllProbe
    \/ trial.phase = "reorganize_all" /\ ReorganizeAllMove
    \/ trial.phase = "reorganize_all" /\ ReorganizeAllNotify

SpecStep == InitStep /\ [][NextStep]_vars

(***************************************************************************)
(* Vocabulary of the properties.                                           *)
(***************************************************************************)
\* no handler, no process_pending call and no reorganize_all call is under way
Quiescent ==
    /\ watcher.pc = "idle"
    /\ timer.pc \in {"loop", "dead"}
    /\ reorg.pc = "idle"

\* a thread is inside a move: folder creation, collision probing or rename
InMove(thread) == thread.pc \in {"mkdir", "probe0", "probe", "move"}

\* this step is the shutil.move of move_file, and it succeeds
TimerMoves ==
    timer.pc = "move" /\ timer' # timer /\ ~MoveRaises(timer.path, timer.dest_path)

\* this step is the shutil.move of reorganize_all, and it succeeds
ReorgMoves ==
    reorg.pc = "move" /\ reorg' # reorg /\ ~MoveRaises(reorg.path, reorg.dest_path)

\* this step ends a process_pending call, by return or by an exception
TimerLeaves == timer.pc \notin {"loop", "dead"} /\ timer'.pc \in {"loop", "dead"}

\* this step ends a reorganize_all call, by return or by an exception
ReorgLeaves == reorg.pc # "idle" /\ reorg'.pc = "idle"

\* the files that a step takes away from their path
Taken == DOMAIN files \ DOMAIN files'

\* the time of the latest creation or modification event of a pending path:
\* the time on_modified has read and not yet stored, else the time stored
LastActivity(path) ==
    IF watcher.pc = "m_store" /\ watcher.path = path THEN watcher.t
    ELSE At(pending, path)

\* on_created has recorded the path (at its time in pending) and no creation or
\* modification event of the path has come since
Quiet(path) ==
    /\ path \in Keys(pending) \cap DOMAIN tracked
    /\ tracked[path] = "created"

(***************************************************************************)
(* C1: a path recorded by on_created at t0 that gets no later creation or  *)
(* modification event is neither moved nor removed from pending by a       *)
(* process_pending call with now - t0 < debounce, and a call with          *)
(* now - t0 >= debounce does not end with the file still in the watch      *)
(* folder.                                                                 *)
(***************************************************************************)
C1_NotEarly(path) == Quiet(path) => ~(timer.now - At(pending, path) < Debounce)

C1_Step ==
    /\ TimerMoves => C1_NotEarly(timer.path)
    /\ (timer.pc = "cleanup" /\ timer' # timer)
          => \A path \in timer.to_remove : C1_NotEarly(path)
    /\ TimerLeaves
          => \A path \in Keys(pending) :
                ~(/\ Quiet(path)
                  /\ timer.now - At(pending, path) >= Debounce
                  /\ path \in DOMAIN files')

C1_EligibleExactlyAtDebounce == [][C1_Step]_vars

(***************************************************************************)
(* C2: while a pending path keeps receiving modification events and every  *)
(* gap between its successive events is shorter than debounce,             *)
(* process_pending does not move the file: no move of the file comes less  *)
(* than debounce after its latest modification event.                      *)
(***************************************************************************)
C2_Step ==
    TimerMoves =>
        ~(/\ timer.path \in Keys(pending) \cap DOMAIN tracked
          /\ tracked[timer.path] = "refreshed"
          /\ clock - LastActivity(timer.path) < Debounce)

C2_NeverMovedWhileRefreshed == [][C2_Step]_vars

(***************************************************************************)
(* C3: no step overwrites or removes a file of a category folder: every    *)
(* file of a subfolder is still at its path with its content after the     *)
(* step, and the step loses no file.                                       *)
(***************************************************************************)
C3_Step ==
    /\ \A q \in DOMAIN files :
          Len(q) >= 2 => q \in DOMAIN files' /\ files'[q] = files[q]
    /\ Cardinality(DOMAIN files') >= Cardinality(DOMAIN files)

C3_NoOverwrite == [][C3_Step]_vars

(***************************************************************************)
(* C4: every non-hidden file created in the watch folder that gets no      *)
(* further write is eventually moved by the tick loop.  In the form a      *)
(* finite run refutes: as long as such a file is in the watch folder, the  *)
(* tick loop is alive, and between operations the file is pending.         *)
(***************************************************************************)
C4_EventuallyMoved ==
    \A path \in DOMAIN tracked :
        (tracked[path] = "created" /\ path \in DOMAIN files)
            => /\ timer.pc # "dead"
               /\ Quiescent => path \in Keys(pending)

(***************************************************************************)
(* C5: between operations, the keys of pending are exactly the paths       *)
(* observed created (directly in the watch folder, not hidden) and not     *)
(* since moved or found missing.                                           *)
(***************************************************************************)
C5_PendingIffObserved == Quiescent => Keys(pending) = DOMAIN tracked

(***************************************************************************)
(* C6: mutations of pending and moves are mutually exclusive: never are    *)
(* two moves under way at once, and never is on_modified between its test  *)
(* and its store while process_pending is under way.                       *)
(***************************************************************************)
C6_MutualExclusion ==
    /\ ~(InMove(timer) /\ InMove(reorg))
    /\ ~(watcher.pc = "m_store" /\ timer.pc \notin {"loop", "dead"})

(***************************************************************************)
(* C7: every file moved out of the watch folder whose lower-cased          *)
(* extension is no key of the extension index (a file without extension    *)
(* included) is inside the folder Other: no such file lies in another      *)
(* subfolder, and no step makes one vanish.                                *)
(***************************************************************************)
UnknownExtension(name) == Lower(Suffix(name)) \notin DOMAIN ExtMap

C7_UnknownLandsInOther ==
    /\ [](\A q \in DOMAIN files :
             (Len(q) # 1 /\ UnknownExtension(files[q])) => q[1] = Other)
    /\ [][\A src \in Taken :
             UnknownExtension(files[src])
                 => \E q \in DOMAIN files' : Len(q) >= 2 /\ files'[q] = files[src]]_vars

\* a file without extension has been moved into Other
C7_Witness ==
    \E q \in DOMAIN files :
        /\ Len(q) = 2
        /\ q[1] = Other
        /\ UnknownExtension(files[q])

(***************************************************************************)
(* C8: a path outside the root of the watch folder is never a key of       *)
(* pending and no step takes a file of a subfolder away from its path.     *)
(***************************************************************************)
C8_SubfoldersLeftAlone ==
    /\ [](\A path \in Keys(pending) : Len(path) = 1)
    /\ [][\A src \in Taken : Len(src) = 1]_vars

(***************************************************************************)
(* C9: a file whose name starts with a dot is never a key of pending and   *)
(* no step takes it away from the watch folder.                            *)
(***************************************************************************)
C9_HiddenLeftAlone ==
    /\ [](\A path \in Keys(pending) : ~StartsWithDot(Last(path)))
    /\ [][\A src \in Taken : ~StartsWithDot(Last(src))]_vars

\* reorganize_all has gone through the watch folder and moved a file into
\* Other, process_pending has gone through pending, and the hidden file is
\* still in the watch folder
C9_Witness ==
    /\ <<DotH>> \in DOMAIN files
    /\ \E q \in DOMAIN files : Len(q) = 2 /\ q[1] = Other
    /\ reorg.pc = "next" /\ reorg.todo = {} /\ reorg.count >= 1
    /\ timer.pc = "cleanup"

(***************************************************************************)
(* C10: reorganize_all, called on a watch folder with N files that are     *)
(* neither directories nor hidden and M entries that are, returns N and    *)
(* leaves each of the N files in a category folder; each of its moves      *)
(* takes the file away from the root, and none of its steps touches a      *)
(* directory or a hidden file of the root.                                 *)
(***************************************************************************)
\* the hidden files in the root of the watch folder
Hidden == {q \in DOMAIN files : Len(q) = 1 /\ StartsWithDot(q[1])}

C10_Step ==
    /\ ReorgLeaves =>
          /\ reorg.pc = "next"
          /\ reorg.count = Cardinality(reorg.eligible)
          /\ \A name \in reorg.eligible :
                \E q \in DOMAIN files' : Len(q) >= 2 /\ files'[q] = name
    /\ ReorgMoves => reorg.path \notin DOMAIN files'
    /\ (reorg.pc # "idle" /\ reorg' # reorg) => Hidden' = Hidden /\ dirs \subseteq dirs'

C10_ReorganizeAllCounts == [][C10_Step]_vars

(***************************************************************************)
(* C11: a file moved into a folder where its plain name is free keeps its  *)
(* name; where the plain name is occupied it gets the name stem_k.ext, of  *)
(* the stem and the extension of its own name, for the smallest k >= 1     *)
(* whose name is free in the folder: that is the destination path with     *)
(* which move_file and reorganize_all leave their collision probing.       *)
(***************************************************************************)
\* stem_k.ext of a file name
Numbered(name, k) == Stem(name) \o <<"_">> \o Str(k) \o Suffix(name)

\* the smallest k >= 1 such that stem_k.ext is free in the folder
FirstFree(folder, name) ==
    CHOOSE k \in 1..(Cardinality(DOMAIN files \cup dirs) + 1) :
        /\ ~Exists(folder \o <<Numbered(name, k)>>)
        /\ \A j \in 1..(k - 1) : Exists(folder \o <<Numbered(name, j)>>)

\* the path the file <<name>> is to have in the folder
CollisionFree(folder, name) ==
    IF ~Exists(folder \o <<name>>) THEN folder \o <<name>>
    ELSE folder \o <<Numbered(name, FirstFree(folder, name))>>

\* this step ends the collision probing of the thread: the destination path
\* it has found free is the one the file is moved to
Resolves(thread, after) ==
    thread.pc \in {"probe0", "probe"} /\ after.pc = "move"

C11_Step ==
    /\ Resolves(timer, timer')
          => timer'.dest_path = CollisionFree(timer.dest_folder, Last(timer.path))
    /\ Resolves(reorg, reorg')
          => reorg'.dest_path = CollisionFree(reorg.dest_folder, Last(reorg.path))

C11_CollisionNaming == [][C11_Step]_vars

(***************************************************************************)
(* C12: every entry that a process_pending call has found stabilized is no *)
(* key of pending when the call ends, whether the call returns or is left  *)
(* by an exception.                                                        *)
(***************************************************************************)
\* the paths the process_pending call under way has found stabilized: those
\* its loop has handled and those it has yet to handle
Stabilized(t) == t.to_remove \cup {t.items[k] : k \in 1..Len(t.items)}

C12_Step ==
    TimerLeaves => \A path \in Stabilized(timer) : path \notin Keys(pending')

C12_StabilizedRemoved == [][C12_Step]_vars

(***************************************************************************)
(* C13: a stabilized entry whose file is gone is skipped: when             *)
(* process_pending looks for the file, or move_file renames it, and the    *)
(* file is not on disk, the step raises nothing and no callback is invoked.*)
(***************************************************************************)
C13_Step ==
    (timer.pc \in {"exists", "move"} /\ timer' # timer /\ ~Exists(timer.path))
        => timer'.pc # "dead" /\ calls' = calls

C13_MissingSkipped == [][C13_Step]_vars

(***************************************************************************)
(* C14: when the shutil.move of a move raises, the source is still at its  *)
(* path, the step has put nothing at the destination (the file system is   *)
(* as before), no callback is invoked, and the exception leaves the        *)
(* function: process_pending is left, reorganize_all is left.              *)
(***************************************************************************)
\* this step is the shutil.move of the thread, and it raises
MoveFails(thread, after) ==
    thread.pc = "move" /\ after # thread /\ MoveRaises(thread.path, thread.dest_path)

\* a failed move has changed nothing and has invoked no callback
NothingMoved(thread) ==
    /\ Exists(thread.path)
    /\ files' = files
    /\ dirs' = dirs
    /\ calls' = calls

C14_Step ==
    /\ MoveFails(timer, timer') => NothingMoved(timer) /\ timer'.pc = "dead"
    /\ MoveFails(reorg, reorg') => NothingMoved(reorg) /\ reorg'.pc = "idle"

C14_FailedMoveLeavesSource == [][C14_Step]_vars

(***************************************************************************)
(* C15: the callback is invoked once after each successful move and at no  *)
(* other time: a successful shutil.move is followed by the callback step   *)
(* of its thread, that step adds one invocation, no other step adds any,   *)
(* and the invocation names the path where the moved entry now is and the  *)
(* category whose folder holds it.                                         *)
(***************************************************************************)
\* this step is the callback step of the thread
Notifies(thread, after) == thread.pc = "notify" /\ after # thread

\* the step adds one invocation, about the entry the thread has moved
InvokedOnce(thread) ==
    /\ Len(calls') = Len(calls) + 1
    /\ SubSeq(calls', 1, Len(calls)) = calls
    /\ LET call == calls'[Len(calls')]
       IN  /\ Len(call.path) = 2
           /\ call.path[1] = call.category
           /\ \/ call.path \in dirs
              \/ call.path \in DOMAIN files /\ files[call.path] = Last(thread.path)

C15_Step ==
    /\ TimerMoves => timer'.pc = "notify"
    /\ ReorgMoves => reorg'.pc = "notify"
    /\ Notifies(timer, timer') => InvokedOnce(timer)
    /\ Notifies(reorg, reorg') => InvokedOnce(reorg)
    /\ (~Notifies(timer, timer') /\ ~Notifies(reorg, reorg')) => calls' = calls

C15_CallbackOncePerMove == [][C15_Step]_vars

(***************************************************************************)
(* C16: on_modified never adds a key to pending: its store leaves the keys *)
(* of pending as they are and changes the time of its own path only, also  *)
(* when process_pending removes the path while the handler runs; and the   *)
(* handler is on its way to a store only for a path that was a key.        *)
(***************************************************************************)
\* this step is the store of on_modified
ModifiedStores == watcher.pc = "m_store" /\ watcher' # watcher

C16_Step ==
    /\ ModifiedStores =>
          /\ Keys(pending') = Keys(pending)
          /\ \A path \in Keys(pending) \ {watcher.path} :
                At(pending', path) = At(pending, path)
    /\ (watcher.pc = "idle" /\ watcher'.pc = "m_store")
          => watcher'.path \in Keys(pending) /\ pending' = pending

C16_ModifiedNeverAdds == [][C16_Step]_vars

(***************************************************************************)
(* C18: an exception in one move (folder creation or rename) does not end  *)
(* the tick loop: no step of move_file leaves the timer thread dead, so    *)
(* the other entries of the tick and later ticks are still handled.        *)
(***************************************************************************)
C18_Step == (InMove(timer) /\ timer' # timer) => timer'.pc # "dead"

C18_FailureConfined == [][C18_Step]_vars

(***************************************************************************)
(* C19: a process_pending call takes no entry with now - lastSeen <        *)
(* debounce into its work, and its steps leave every entry outside its     *)
(* work untouched: the key stays in pending with its time, the file stays  *)
(* at its path, no callback is about it; so the next call finds the entry. *)
(***************************************************************************)
\* the work of the process_pending call that this step belongs to
Work == IF timer.pc = "loop" THEN Stabilized(timer') ELSE Stabilized(timer)

C19_Step ==
    timer' # timer =>
        /\ timer.pc = "loop" =>
              \A path \in Keys(pending) :
                  clock - At(pending, path) < Debounce => path \notin Work
        /\ \A path \in Keys(pending) \ Work :
              /\ path \in Keys(pending')
              /\ At(pending', path) = At(pending, path)
              /\ path \in DOMAIN files =>
                    path \in DOMAIN files' /\ files'[path] = files[path]
        /\ (TimerMoves \/ Notifies(timer, timer')) => timer.path \in Work

C19_FreshLeftAlone == [][C19_Step]_vars

\* a call has moved the stabilized file Images and is about to end, while
\* p.JPG, recorded one second ago, is still pending and in the watch folder
C19_Witness ==
    /\ timer.pc = "cleanup"
    /\ timer.to_remove = {<<Images>>}
    /\ <<Other, Images>> \in DOMAIN files
    /\ <<PJpg>> \in Keys(pending)
    /\ timer.now - At(pending, <<PJpg>>) < Debounce
    /\ <<PJpg>> \in DOMAIN files

(***************************************************************************)
(* C17: the index that build_extension_map returns has as keys exactly the *)
(* lower-cased extensions listed in the table, each with the last category *)
(* of the table that lists it; the index of the empty table is empty; and  *)
(* a further call on the same table returns the same index.                *)
(***************************************************************************)
\* the category at position k of the table lists the extension, in some case
Lists(t, k, ext) == \E j \in 1..Len(t[k].extensions) : Lower(t[k].extensions[j]) = ext

Listed(t) ==
    {Lower(t[k].extensions[j]) : <<k, j>> \in
        {<<k, j>> \in (1..Len(t)) \X (1..MaxExtensions) : j <= Len(t[k].extensions)}}

LastListing(t, ext) ==
    CHOOSE k \in 1..Len(t) :
        Lists(t, k, ext) /\ \A m \in (k + 1)..Len(t) : ~Lists(t, m, ext)

LastWins(t) == [ext \in Listed(t) |-> t[LastListing(t, ext)].category]

C17_IndexIsLastWins ==
    /\ [](index.built =>
             /\ DOMAIN index.map = Listed(table)
             /\ index.map = LastWins(table)
             /\ table = <<>> => DOMAIN index.map = {})
    /\ [][index.built => index' = index]_vars

\* an index built from a table of two categories that both list .JPG, the
\* second of them .pdf as well
C17_Witness ==
    /\ index.built
    /\ Len(table) = 2
    /\ DotJPG \in Range(table[1].extensions)
    /\ DotJPG \in Range(table[2].extensions)
    /\ DotPdf \in Range(table[2].extensions)
    /\ DOMAIN index.map = {DotJpg, DotPdf}
    /\ index.map[DotJpg] = table[2].category

(***************************************************************************)
(* C20: once stop() has returned, and until start() is called again, no    *)
(* handler changes a pending dict and no tick loop begins a call of        *)
(* process_pending; and at no time is more than one tick loop running.     *)
(***************************************************************************)
\* the process_loop threads that have not ended
Driving == {k \in 1..Len(loops) : loops[k].pc # "done"}

C20_Step ==
    (stopped /\ stopped') =>
        /\ pendings' = pendings
        /\ \A k \in 1..Len(loops) :
              ~(loops[k].pc = "body" /\ loops'[k].pc = "pending")

C20_StopQuiesces ==
    /\ [](Cardinality(Driving) <= 1)
    /\ [][C20_Step]_vars

====
